---- MODULE Spec2Model ----
(***************************************************************************)
(* Model of c_src/matter_nif.cpp built with MATTER_SDK_ENABLED: the        *)
(* singleton / reference-count lifecycle of MatterContext resources, the   *)
(* process-wide mutex, the listener registration and the WiFi driver's     *)
(* pending scan / connect callbacks.                                       *)
(*                                                                         *)
(* Threads 1..NumCallers are BEAM scheduler threads running NIF calls and  *)
(* resource destructors; MatterThread is the Matter SDK's event loop,      *)
(* which calls the NervesWiFiDriver and the attribute-change callback      *)
(* with the CHIP stack lock held.                                          *)
(***************************************************************************)
EXTENDS Integers, FiniteSets, Sequences, TLC

\* ---------------------------------------------------------------- bounds
NumCallers == 2
MaxCtx == 2
MaxInitCalls == 3
MaxBridgeInits == 2
NumPids == 2
MaxCallbacks == 2
NumNets == 1
MaxOver == 1
MaxByte == 1
MaxStatus == 1

NULL == 0
\* sizeof(StoredNetwork::ssid), sizeof(StoredNetwork::credentials)
SsidCapacity == 32
CredCapacity == 64
\* endpoint_id > 0xFFFF; setup_pin > 99999998; discriminator > 4095;
\* serial.size < 32
EndpointMax == 65535
PinMax == 99999998
DiscriminatorMax == 4095
SerialLimit == 32

Callers == 1..NumCallers
MatterThread == NumCallers + 1
Threads == 1..MatterThread
Ctx == 1..MaxCtx
Pids == 1..NumPids
Tokens == 1..MaxCallbacks

\* A byte string is named by its origin and its length: the first n bytes
\* of the string of origin id.
Bytes(id, n) == [id |-> id, len |-> n]
EmptyBytes == Bytes(NULL, 0)

\* A copy of the whole source, whatever the buffer holds.
Unbounded(a, b) == a

\* std::min(a, b)
Min(a, b) == IF a < b THEN a ELSE b

\* memcpy(dst, src.data(), n): the first n bytes of src.
Prefix(src, n) == Bytes(IF n = 0 THEN NULL ELSE src.id, n)

\* The ByteSpans the stack passes to the driver.
SsidInputs ==
    {Bytes(i, n) : i \in 1..NumNets, n \in {SsidCapacity, SsidCapacity + MaxOver}}
CredInputs ==
    {Bytes(i, n) : i \in 1..NumNets, n \in {CredCapacity, CredCapacity + MaxOver}}

\* The ByteSpans of AddOrUpdateNetwork, with those shorter than the buffers:
\* a one-byte SSID, the empty credentials of an open network.
ShortSsidInputs == SsidInputs \cup {Bytes(i, 1) : i \in 1..NumNets}
ShortCredInputs == CredInputs \cup {Bytes(i, 0) : i \in 1..NumNets}

\* The network ids the stack asks to connect to: those it may have added,
\* and one that no AddOrUpdateNetwork call was given.
ConnectInputs == SsidInputs \cup {Bytes(NumNets + 1, SsidCapacity)}

VARIABLES
    g_nif_mutex,    \* the global mutex pointer: NULL or the mutex object in use
    holder,         \* holder[m]: the thread owning std::mutex object m, or NULL
    singleton,      \* MatterSingleton: owner_context, ref_count, sdk_initialized
    ctx,            \* the MatterContext resources, by memory slot
    pc,             \* pc[t]: where thread t is
    cur,            \* cur[t]: the MatterContext thread t works on, or NULL
    mtx,            \* mtx[t]: the mutex get_global_mutex() gave thread t
    ret,            \* ret[t]: what thread t's last finished call returned
    chipUp,         \* the CHIP stack is initialised (InitChipStack .. Shutdown)
    initCount,      \* successful InitChipStack calls so far
    shutdownCount,  \* Server/PlatformMgr Shutdown calls so far
    nInitCalls,     \* nif_init calls started so far
    sched,          \* the scheduler threads of this run: 1..sched
    maxInits,       \* the nif_init calls this run may start
    self_pid,       \* self_pid[t]: enif_self() of the call thread t runs
    driver,         \* g_wifi_driver: mpScanCallback, mpConnectCallback, mNetwork
    cb,             \* the locals of the driver callback the Matter thread runs
    nCallbacks,     \* callbacks the stack has started so far
    status,         \* status[t]: the status argument of the call thread t runs
    nTokens,        \* completion callbacks the stack has supplied so far
    invoked,        \* invoked[k]: the statuses completion callback k was called with
    stored,         \* stored[k]: the driver slot callback k was stored in, if any
    nSent,          \* messages handed to enif_send so far
    sentMsg,        \* the message the running callback handed to enif_send
    lastReg,        \* the pid of the last nif_register_callback that returned
    regAtLookup,    \* lastReg when the running callback looked the listener up
    calls,          \* calls[t]: the collaborator calls the NIF thread t runs has made
    config          \* what ConfigurationMgr has stored: setup PIN, discriminator, vendor id

life == <<g_nif_mutex, holder, singleton, ctx, pc, cur, mtx, ret,
          chipUp, initCount, shutdownCount, nInitCalls, sched, maxInits>>
bridge == <<self_pid, status, driver, cb, nCallbacks, nTokens, invoked,
            stored, nSent, sentMsg, lastReg, regAtLookup>>
nif == <<calls, config>>
vars == <<life, bridge, nif>>

\* ------------------------------------------------------------ data types
\* memset(ctx, 0, sizeof(MatterContext)); state is the resource's life:
\* "free" (no resource), "new" (allocated inside nif_init), "live" (held by
\* an Erlang term), "dying" (its destructor is running).
ZeroContext ==
    [state |-> "free", initialized |-> FALSE, is_owner |-> FALSE,
     has_listener |-> FALSE, listener_pid |-> NULL, wifi_driver |-> FALSE]

MatterSingleton ==
    [owner_context |-> NULL, ref_count |-> 0, sdk_initialized |-> FALSE]

\* What a freed MatterContext's memory may hold when it is read through a
\* dangling owner_context: only has_listener and listener_pid are ever read.
FreedContext(c) ==
    IF singleton.owner_context = c
    THEN {[ZeroContext EXCEPT !.has_listener = TRUE, !.listener_pid = p] : p \in Pids}
         \cup {ZeroContext}
    ELSE {ZeroContext}

\* NervesWiFiDriver g_wifi_driver: mNetwork = {}, both callbacks nullptr.
WiFiDriver ==
    [mpScanCallback |-> NULL, mpConnectCallback |-> NULL,
     mNetwork |-> [ssid |-> EmptyBytes, credentials |-> EmptyBytes,
                   configured |-> FALSE]]

\* The arguments of MatterPostAttributeChangeCallback: the attribute's type
\* and the size bytes of its value.
NoAttr == [type |-> "none", value |-> <<>>]
AttrTypes ==
    {"ZCL_BOOLEAN_ATTRIBUTE_TYPE", "ZCL_INT8U_ATTRIBUTE_TYPE",
     "ZCL_INT16U_ATTRIBUTE_TYPE", "other"}
AttrValues == {<<b>> : b \in 0..MaxByte} \cup {<<0, MaxByte>>}
AttrInputs == {[type |-> ty, value |-> v] : ty \in AttrTypes, v \in AttrValues}

\* The Matter thread runs no callback.
NoCallback ==
    [found |-> FALSE, pid |-> NULL, tok |-> NULL,
     ssid |-> EmptyBytes, cred |-> EmptyBytes, attr |-> NoAttr]

NoMessage ==
    [kind |-> "none", to |-> NULL, ssid |-> EmptyBytes, cred |-> EmptyBytes,
     type |-> "none", val |-> "none"]

\* ConfigurationMgr's store before anything was written to it.
ConfigurationMgr == [pin |-> <<>>, discriminator |-> <<>>, vendor |-> <<>>]

InitVars ==
    /\ g_nif_mutex = NULL
    /\ holder = [m \in Callers |-> NULL]
    /\ singleton = MatterSingleton
    /\ ctx = [c \in Ctx |-> ZeroContext]
    /\ pc = [t \in Threads |-> "idle"]
    /\ cur = [t \in Threads |-> NULL]
    /\ mtx = [t \in Threads |-> NULL]
    /\ ret = [t \in Threads |-> "none"]
    /\ chipUp = FALSE
    /\ initCount = 0
    /\ shutdownCount = 0
    /\ nInitCalls = 0
    /\ self_pid = [t \in Threads |-> NULL]
    /\ driver = WiFiDriver
    /\ cb = NoCallback
    /\ nCallbacks = 0
    /\ nTokens = 0
    /\ invoked = [k \in Tokens |-> <<>>]
    /\ stored = [k \in Tokens |-> "none"]
    /\ status = [t \in Threads |-> 0]
    /\ nSent = 0
    /\ sentMsg = NoMessage
    /\ lastReg = NULL
    /\ regAtLookup = NULL
    /\ calls = [t \in Threads |-> <<>>]
    /\ config = ConfigurationMgr

\* ------------------------------------------------------- get_global_mutex
\* if (!g_nif_mutex): the caller goes on to create a mutex, or to return the
\* one it found.
GetMutexCheck(new, found) == IF g_nif_mutex = NULL THEN new ELSE found

\* g_nif_mutex = new std::mutex(): the new object is named after its creator.
NewMutex(t) == t

\* std::lock_guard's constructor on a mutex nobody holds.
CanLock(t) == holder[mtx[t]] = NULL

\* ---------------------------------------------------------------- nif_init
InitCall(t) ==
    /\ pc[t] = "idle"
    /\ nInitCalls < maxInits
    /\ nInitCalls' = nInitCalls + 1
    /\ pc' = [pc EXCEPT ![t] = GetMutexCheck("init_gmnew", "init_gmret")]
    /\ ret' = [ret EXCEPT ![t] = "none"]
    /\ UNCHANGED <<g_nif_mutex, holder, singleton, ctx, cur, mtx, chipUp,
                   initCount, shutdownCount, sched, maxInits, bridge, nif>>

InitGmNew(t) ==
    /\ pc[t] = "init_gmnew"
    /\ g_nif_mutex' = NewMutex(t)
    /\ pc' = [pc EXCEPT ![t] = "init_gmret"]
    /\ UNCHANGED <<holder, singleton, ctx, cur, mtx, ret, chipUp, initCount,
                   shutdownCount, nInitCalls, sched, maxInits, bridge, nif>>

InitGmRet(t) ==
    /\ pc[t] = "init_gmret"
    /\ mtx' = [mtx EXCEPT ![t] = g_nif_mutex]
    /\ pc' = [pc EXCEPT ![t] = "init_lock"]
    /\ UNCHANGED <<g_nif_mutex, holder, singleton, ctx, cur, ret, chipUp,
                   initCount, shutdownCount, nInitCalls, sched, maxInits, bridge, nif>>

InitLock(t) ==
    /\ pc[t] = "init_lock"
    /\ CanLock(t)
    /\ holder' = [holder EXCEPT ![mtx[t]] = t]
    /\ pc' = [pc EXCEPT ![t] = "init_alloc"]
    /\ UNCHANGED <<g_nif_mutex, singleton, ctx, cur, mtx, ret, chipUp,
                   initCount, shutdownCount, nInitCalls, sched, maxInits, bridge, nif>>

\* if (singleton->sdk_initialized && singleton->owner_context)
SharesSdk == singleton.sdk_initialized /\ singleton.owner_context # NULL

\* The context of a caller that found the SDK initialised.
SharedContext ==
    [ZeroContext EXCEPT !.state = "new", !.initialized = TRUE,
                        !.is_owner = FALSE, !.wifi_driver = TRUE]

\* enif_alloc_resource fails when no memory is left; otherwise the context
\* is zeroed and either shares the SDK or is marked the owner.
InitAlloc(t) ==
    /\ pc[t] = "init_alloc"
    /\ IF \A c \in Ctx : ctx[c].state # "free"
       THEN /\ holder' = [holder EXCEPT ![mtx[t]] = NULL]
            /\ ret' = [ret EXCEPT ![t] = "alloc_failed"]
            /\ pc' = [pc EXCEPT ![t] = "ret"]
            /\ UNCHANGED <<singleton, ctx, cur>>
       ELSE \E c \in Ctx :
            /\ ctx[c].state = "free"
            /\ cur' = [cur EXCEPT ![t] = c]
            /\ IF SharesSdk
               THEN /\ ctx' = [ctx EXCEPT ![c] = SharedContext]
                    /\ singleton' = [singleton EXCEPT !.ref_count = @ + 1]
                    /\ pc' = [pc EXCEPT ![t] = "init_ret"]
               ELSE /\ ctx' = [ctx EXCEPT ![c] =
                                  [ZeroContext EXCEPT !.state = "new", !.is_owner = TRUE]]
                    /\ UNCHANGED singleton
                    /\ pc' = [pc EXCEPT ![t] = "init_chip"]
            /\ UNCHANGED <<holder, ret>>
    /\ UNCHANGED <<g_nif_mutex, mtx, chipUp, initCount, shutdownCount, nInitCalls, sched, maxInits, bridge, nif>>

\* The singleton once the owner's initialisation has succeeded.
OwnerSingleton(c) ==
    [owner_context |-> c, ref_count |-> 1, sdk_initialized |-> TRUE]

\* InitChipStack() succeeds and the context becomes the owner, or fails and
\* enif_release_resource(ctx) runs the destructor on this thread, inside
\* nif_init's lock_guard.
InitChip(t) ==
    /\ pc[t] = "init_chip"
    /\ \/ /\ chipUp' = TRUE
          /\ initCount' = initCount + 1
          /\ ctx' = [ctx EXCEPT ![cur[t]].initialized = TRUE,
                                ![cur[t]].wifi_driver = TRUE]
          /\ singleton' = OwnerSingleton(cur[t])
          /\ pc' = [pc EXCEPT ![t] = "init_ret"]
       \/ /\ ctx' = [ctx EXCEPT ![cur[t]].state = "dying"]
          /\ pc' = [pc EXCEPT ![t] = "fdtor_lock"]
          /\ UNCHANGED <<chipUp, initCount, singleton>>
    /\ UNCHANGED <<g_nif_mutex, holder, cur, mtx, ret, shutdownCount, nInitCalls, sched, maxInits, bridge, nif>>

\* return OK_TUPLE(env, context_term): the Erlang term now owns the resource
\* and the lock_guard unlocks.
InitRet(t) ==
    /\ pc[t] = "init_ret"
    /\ ctx' = [ctx EXCEPT ![cur[t]].state = "live"]
    /\ holder' = [holder EXCEPT ![mtx[t]] = NULL]
    /\ ret' = [ret EXCEPT ![t] = "ok"]
    /\ cur' = [cur EXCEPT ![t] = NULL]
    /\ pc' = [pc EXCEPT ![t] = "ret"]
    /\ UNCHANGED <<g_nif_mutex, singleton, mtx, chipUp, initCount,
                   shutdownCount, nInitCalls, sched, maxInits, bridge, nif>>

\* -------------------------------------------------- matter_context_destructor
\* singleton->ref_count--
DestructorDec == [singleton EXCEPT !.ref_count = @ - 1]

\* The destructor's test without its is_owner conjunct: any last handle
\* would shut the SDK down.
ShutsDownAnyHandle(c) ==
    singleton.ref_count <= 0 /\ ctx[c].initialized

\* if (ctx->is_owner && singleton->ref_count <= 0 && ctx->initialized)
ShutsDown(c) ==
    ctx[c].is_owner /\ singleton.ref_count <= 0 /\ ctx[c].initialized

\* The destructor's test and, when it passes, the shutdown of the SDK.
DestructorCheck(c) ==
    IF ShutsDown(c)
    THEN /\ chipUp' = FALSE
         /\ shutdownCount' = shutdownCount + 1
         /\ singleton' = [singleton EXCEPT !.sdk_initialized = FALSE,
                                           !.owner_context = NULL]
         /\ ctx' = [ctx EXCEPT ![c].initialized = FALSE]
    ELSE UNCHANGED <<chipUp, shutdownCount, singleton, ctx>>

\* The garbage collector drops the last reference to a live resource that no
\* running call uses: the destructor starts on some scheduler thread.
DtorCall(t, c) ==
    /\ pc[t] = "idle"
    /\ ctx[c].state = "live"
    /\ \A u \in Threads : cur[u] # c
    /\ ctx' = [ctx EXCEPT ![c].state = "dying"]
    /\ cur' = [cur EXCEPT ![t] = c]
    /\ mtx' = [mtx EXCEPT ![t] = g_nif_mutex]
    /\ ret' = [ret EXCEPT ![t] = "none"]
    /\ pc' = [pc EXCEPT ![t] = "dtor_lock"]
    /\ UNCHANGED <<g_nif_mutex, holder, singleton, chipUp, initCount,
                   shutdownCount, nInitCalls, sched, maxInits, bridge, nif>>

DtorLock(t) ==
    /\ pc[t] = "dtor_lock"
    /\ CanLock(t)
    /\ holder' = [holder EXCEPT ![mtx[t]] = t]
    /\ pc' = [pc EXCEPT ![t] = "dtor_dec"]
    /\ UNCHANGED <<g_nif_mutex, singleton, ctx, cur, mtx, ret, chipUp,
                   initCount, shutdownCount, nInitCalls, sched, maxInits, bridge, nif>>

DtorDec(t) ==
    /\ pc[t] = "dtor_dec"
    /\ singleton' = DestructorDec
    /\ pc' = [pc EXCEPT ![t] = "dtor_check"]
    /\ UNCHANGED <<g_nif_mutex, holder, ctx, cur, mtx, ret, chipUp,
                   initCount, shutdownCount, nInitCalls, sched, maxInits, bridge, nif>>

DtorCheck(t) ==
    /\ pc[t] = "dtor_check"
    /\ DestructorCheck(cur[t])
    /\ pc' = [pc EXCEPT ![t] = "dtor_unlock"]
    /\ UNCHANGED <<g_nif_mutex, holder, cur, mtx, ret, initCount, nInitCalls, sched, maxInits, bridge, nif>>

\* The lock_guard unlocks, the destructor returns and the resource's memory
\* is freed.
DtorUnlock(t) ==
    /\ pc[t] = "dtor_unlock"
    /\ holder' = [holder EXCEPT ![mtx[t]] = NULL]
    /\ \E f \in FreedContext(cur[t]) : ctx' = [ctx EXCEPT ![cur[t]] = f]
    /\ cur' = [cur EXCEPT ![t] = NULL]
    /\ ret' = [ret EXCEPT ![t] = "released"]
    /\ pc' = [pc EXCEPT ![t] = "ret"]
    /\ UNCHANGED <<g_nif_mutex, singleton, mtx, chipUp, initCount,
                   shutdownCount, nInitCalls, sched, maxInits, bridge, nif>>

\* ------------------------- the destructor run inside a failed nif_init
\* The destructor's lock_guard locks the std::mutex this thread already
\* holds: undefined behaviour.  Either the thread blocks for ever (this
\* action never happens) or the lock is taken again and the destructor runs.
FdtorRelock(t) ==
    /\ pc[t] = "fdtor_lock"
    /\ holder[mtx[t]] = t
    /\ pc' = [pc EXCEPT ![t] = "fdtor_dec"]
    /\ UNCHANGED <<g_nif_mutex, holder, singleton, ctx, cur, mtx, ret, chipUp,
                   initCount, shutdownCount, nInitCalls, sched, maxInits, bridge, nif>>

FdtorDec(t) ==
    /\ pc[t] = "fdtor_dec"
    /\ singleton' = DestructorDec
    /\ pc' = [pc EXCEPT ![t] = "fdtor_check"]
    /\ UNCHANGED <<g_nif_mutex, holder, ctx, cur, mtx, ret, chipUp,
                   initCount, shutdownCount, nInitCalls, sched, maxInits, bridge, nif>>

FdtorCheck(t) ==
    /\ pc[t] = "fdtor_check"
    /\ DestructorCheck(cur[t])
    /\ pc' = [pc EXCEPT ![t] = "fdtor_unlock"]
    /\ UNCHANGED <<g_nif_mutex, holder, cur, mtx, ret, initCount, nInitCalls, sched, maxInits, bridge, nif>>

\* The destructor's lock_guard unlocks the mutex nif_init still relies on,
\* and the resource's memory is freed.
FdtorUnlock(t) ==
    /\ pc[t] = "fdtor_unlock"
    /\ holder' = [holder EXCEPT ![mtx[t]] = NULL]
    /\ \E f \in FreedContext(cur[t]) : ctx' = [ctx EXCEPT ![cur[t]] = f]
    /\ cur' = [cur EXCEPT ![t] = NULL]
    /\ pc' = [pc EXCEPT ![t] = "init_failret"]
    /\ UNCHANGED <<g_nif_mutex, singleton, mtx, ret, chipUp, initCount,
                   shutdownCount, nInitCalls, sched, maxInits, bridge, nif>>

\* return ERROR_TUPLE(env, "chip_init_failed"): nif_init's lock_guard unlocks
\* a mutex it no longer owns (undefined behaviour): the mutex ends unlocked,
\* or, when another thread took it meanwhile, it may stay with that thread.
InitFailRet(t) ==
    /\ pc[t] = "init_failret"
    /\ \/ holder' = [holder EXCEPT ![mtx[t]] = NULL]
       \/ /\ holder[mtx[t]] # NULL
          /\ UNCHANGED holder
    /\ ret' = [ret EXCEPT ![t] = "chip_init_failed"]
    /\ pc' = [pc EXCEPT ![t] = "ret"]
    /\ UNCHANGED <<g_nif_mutex, singleton, ctx, cur, mtx, chipUp, initCount,
                   shutdownCount, nInitCalls, sched, maxInits, bridge, nif>>


\* ------------------------------------------------------ nif_register_callback
\* enif_get_resource and enif_self: no lock is taken.
RegisterCall(t, c, p) ==
    /\ pc[t] = "idle"
    /\ ctx[c].state = "live"
    /\ cur' = [cur EXCEPT ![t] = c]
    /\ self_pid' = [self_pid EXCEPT ![t] = p]
    /\ ret' = [ret EXCEPT ![t] = "none"]
    /\ pc' = [pc EXCEPT ![t] = "reg_pid"]
    /\ UNCHANGED <<g_nif_mutex, holder, singleton, ctx, mtx, chipUp, initCount,
                   shutdownCount, nInitCalls, sched, maxInits, status, driver, cb,
                   nCallbacks, nTokens, invoked, stored, nSent, sentMsg, lastReg,
                   regAtLookup, nif>>

\* ctx->listener_pid = pid
RegisterPid(t) ==
    /\ pc[t] = "reg_pid"
    /\ ctx' = [ctx EXCEPT ![cur[t]].listener_pid = self_pid[t]]
    /\ pc' = [pc EXCEPT ![t] = "reg_flag"]
    /\ UNCHANGED <<g_nif_mutex, holder, singleton, cur, mtx, ret, chipUp,
                   initCount, shutdownCount, nInitCalls, sched, maxInits, bridge, nif>>

\* ctx->has_listener = true; ctx->monitor_active = false; return OK
RegisterFlag(t) ==
    /\ pc[t] = "reg_flag"
    /\ ctx' = [ctx EXCEPT ![cur[t]].has_listener = TRUE]
    /\ lastReg' = self_pid[t]
    /\ self_pid' = [self_pid EXCEPT ![t] = NULL]
    /\ cur' = [cur EXCEPT ![t] = NULL]
    /\ ret' = [ret EXCEPT ![t] = "ok"]
    /\ pc' = [pc EXCEPT ![t] = "ret"]
    /\ UNCHANGED <<g_nif_mutex, holder, singleton, mtx, chipUp, initCount,
                   shutdownCount, nInitCalls, sched, maxInits, status, driver, cb,
                   nCallbacks, nTokens, invoked, stored, nSent, sentMsg, regAtLookup, nif>>

\* ------------------------------------------------------------ the stack lock
\* A stack that lets callers in without its lock.
StackLockUnchecked == TRUE

\* PlatformMgr().LockChipStack(): held by the Matter thread while it runs a
\* callback, and by a NIF between LockChipStack and UnlockChipStack.
StackLockFree ==
    /\ pc[MatterThread] = "idle"
    /\ \A t \in Callers : pc[t] \notin {"scan_res", "conn_res"}

\* ---------------------------------------------------------- get_listener_info
ListenerInfo ==
    IF /\ singleton.owner_context # NULL
       /\ ctx[singleton.owner_context].has_listener
    THEN [found |-> TRUE, pid |-> ctx[singleton.owner_context].listener_pid]
    ELSE [found |-> FALSE, pid |-> NULL]

\* get_listener_info's lock_guard can take the mutex.
CanLookUp == g_nif_mutex # NULL /\ holder[g_nif_mutex] = NULL

\* lastReg as far as a lookup made now can know it: NULL while a
\* registration is being written.
RegistrationSeen ==
    IF \E t \in Callers : pc[t] \in {"reg_pid", "reg_flag"} THEN NULL ELSE lastReg

\* A callback of the stack starts on the Matter thread, which holds the
\* stack lock, and runs up to the end of get_listener_info (lock, read,
\* unlock) with the locals c; it goes on at pc next.
CallbackLookup(c, next) ==
    /\ StackLockFree
    /\ chipUp
    /\ nCallbacks < MaxCallbacks
    /\ CanLookUp
    /\ nCallbacks' = nCallbacks + 1
    /\ cb' = [c EXCEPT !.found = ListenerInfo.found, !.pid = ListenerInfo.pid]
    /\ regAtLookup' = RegistrationSeen
    /\ pc' = [pc EXCEPT ![MatterThread] = next]

\* enif_send(NULL, &pid, msg_env, msg)
Send(msg) ==
    /\ nSent' = nSent + 1
    /\ sentMsg' = msg

\* A callback of the Matter thread returns r.
Return(r) ==
    /\ ret' = [ret EXCEPT ![MatterThread] = r]
    /\ pc' = [pc EXCEPT ![MatterThread] = "ret"]
    /\ cb' = NoCallback
    /\ UNCHANGED regAtLookup

\* ------------------------------------------- NervesWiFiDriver::ScanNetworks
ScanNetworks ==
    /\ CallbackLookup([NoCallback EXCEPT !.tok = nTokens + 1], "scan_act")
    /\ nTokens' = nTokens + 1
    /\ UNCHANGED <<g_nif_mutex, holder, singleton, ctx, cur, mtx, ret, chipUp,
                   initCount, shutdownCount, nInitCalls, sched, maxInits,
                   self_pid, status, driver, invoked, stored, nSent, sentMsg, lastReg, nif>>

\* What ScanNetworks does to the driver once the listener was looked up.
ScanStore == [driver EXCEPT !.mpScanCallback = cb.tok]

ScanMessage ==
    [NoMessage EXCEPT !.kind = "scan_networks", !.to = cb.pid]

ScanAct ==
    /\ pc[MatterThread] = "scan_act"
    /\ IF ~cb.found
       THEN /\ Return("CHIP_ERROR_INCORRECT_STATE")
            /\ UNCHANGED <<driver, stored, nSent, sentMsg>>
       ELSE /\ driver' = ScanStore
            /\ stored' = [stored EXCEPT ![cb.tok] = "scan"]
            /\ \/ /\ Send(ScanMessage)
                  /\ Return("CHIP_NO_ERROR")
               \/ /\ Return("CHIP_ERROR_NO_MEMORY")
                  /\ UNCHANGED <<nSent, sentMsg>>
    /\ UNCHANGED <<g_nif_mutex, holder, singleton, ctx, cur, mtx, chipUp,
                   initCount, shutdownCount, nInitCalls, sched, maxInits, self_pid,
                   status, nCallbacks, nTokens, invoked, lastReg, nif>>

\* ----------------------------------------- NervesWiFiDriver::ConnectNetwork
ConnectNetwork(ssid) ==
    /\ CallbackLookup([NoCallback EXCEPT !.tok = nTokens + 1, !.ssid = ssid],
                      "conn_act")
    /\ nTokens' = nTokens + 1
    /\ UNCHANGED <<g_nif_mutex, holder, singleton, ctx, cur, mtx, ret, chipUp,
                   initCount, shutdownCount, nInitCalls, sched, maxInits,
                   self_pid, status, driver, invoked, stored, nSent, sentMsg, lastReg, nif>>

ConnectStore == [driver EXCEPT !.mpConnectCallback = cb.tok]

\* {:connect_network, ssid, credentials}: the ssid argument in full and the
\* credentialsLength saved bytes.
ConnectMessage ==
    [NoMessage EXCEPT !.kind = "connect_network", !.to = cb.pid,
                      !.ssid = Prefix(cb.ssid, cb.ssid.len),
                      !.cred = driver.mNetwork.credentials]

ConnectAct ==
    /\ pc[MatterThread] = "conn_act"
    /\ IF ~cb.found
       THEN /\ Return("CHIP_ERROR_INCORRECT_STATE")
            /\ UNCHANGED <<driver, stored, nSent, sentMsg>>
       ELSE /\ driver' = ConnectStore
            /\ stored' = [stored EXCEPT ![cb.tok] = "connect"]
            /\ \/ /\ Send(ConnectMessage)
                  /\ Return("CHIP_NO_ERROR")
               \/ /\ Return("CHIP_ERROR_NO_MEMORY")
                  /\ UNCHANGED <<nSent, sentMsg>>
    /\ UNCHANGED <<g_nif_mutex, holder, singleton, ctx, cur, mtx, chipUp,
                   initCount, shutdownCount, nInitCalls, sched, maxInits, self_pid,
                   status, nCallbacks, nTokens, invoked, lastReg, nif>>

\* ------------------------------------- NervesWiFiDriver::AddOrUpdateNetwork
\* mNetwork after the two bounded copies.
StoreNetwork(ssid, cred) ==
    [ssid |-> Prefix(ssid, Min(ssid.len, SsidCapacity)),
     credentials |-> Prefix(cred, Min(cred.len, CredCapacity)),
     configured |-> TRUE]

AddOrUpdateNetwork(ssid, cred) ==
    /\ CallbackLookup([NoCallback EXCEPT !.ssid = ssid, !.cred = cred], "add_act")
    /\ driver' = [driver EXCEPT !.mNetwork = StoreNetwork(ssid, cred)]
    /\ UNCHANGED <<g_nif_mutex, holder, singleton, ctx, cur, mtx, ret, chipUp,
                   initCount, shutdownCount, nInitCalls, sched, maxInits,
                   self_pid, status, nTokens, invoked, stored, nSent, sentMsg, lastReg, nif>>

\* {:add_network, ssid, credentials}: both arguments in full.
AddMessage ==
    [NoMessage EXCEPT !.kind = "add_network", !.to = cb.pid,
                      !.ssid = Prefix(cb.ssid, cb.ssid.len),
                      !.cred = Prefix(cb.cred, cb.cred.len)]

AddAct ==
    /\ pc[MatterThread] = "add_act"
    /\ \/ /\ cb.found
          /\ Send(AddMessage)
       \/ UNCHANGED <<nSent, sentMsg>>
    /\ Return("CHIP_NO_ERROR")
    /\ UNCHANGED <<g_nif_mutex, holder, singleton, ctx, cur, mtx, chipUp,
                   initCount, shutdownCount, nInitCalls, sched, maxInits, self_pid,
                   status, driver, nCallbacks, nTokens, invoked, stored, lastReg, nif>>

\* -------------------------------------- MatterPostAttributeChangeCallback
AttributeChange(a) ==
    /\ CallbackLookup([NoCallback EXCEPT !.attr = a], "attr_act")
    /\ UNCHANGED <<g_nif_mutex, holder, singleton, ctx, cur, mtx, ret, chipUp,
                   initCount, shutdownCount, nInitCalls, sched, maxInits,
                   self_pid, status, driver, nTokens, invoked, stored, nSent, sentMsg,
                   lastReg, nif>>

\* The decoded value: true/false, the byte, the 16-bit word (memcpy of two
\* bytes on a little-endian target), or nil.
DecodeValue(a) ==
    IF a.type = "ZCL_BOOLEAN_ATTRIBUTE_TYPE" THEN a.value[1] # 0
    ELSE IF a.type = "ZCL_INT8U_ATTRIBUTE_TYPE" THEN a.value[1]
    ELSE IF a.type = "ZCL_INT16U_ATTRIBUTE_TYPE" /\ Len(a.value) >= 2
         THEN a.value[1] + 256 * a.value[2]
    ELSE "nil"

AttributeMessage ==
    [NoMessage EXCEPT !.kind = "attribute_changed", !.to = cb.pid,
                      !.type = cb.attr.type, !.val = DecodeValue(cb.attr)]

AttributeAct ==
    /\ pc[MatterThread] = "attr_act"
    /\ \/ /\ cb.found
          /\ Send(AttributeMessage)
       \/ UNCHANGED <<nSent, sentMsg>>
    /\ Return("void")
    /\ UNCHANGED <<g_nif_mutex, holder, singleton, ctx, cur, mtx, chipUp,
                   initCount, shutdownCount, nInitCalls, sched, maxInits, self_pid,
                   status, driver, nCallbacks, nTokens, invoked, stored, lastReg, nif>>

\* ------------------------ nif_wifi_scan_result / nif_wifi_connect_result
\* The call up to LockChipStack().
ResultCall(t, c, st, here) ==
    /\ pc[t] = "idle"
    /\ ctx[c].state = "live"
    /\ StackLockFree
    /\ cur' = [cur EXCEPT ![t] = c]
    /\ status' = [status EXCEPT ![t] = st]
    /\ ret' = [ret EXCEPT ![t] = "none"]
    /\ pc' = [pc EXCEPT ![t] = here]
    /\ UNCHANGED <<g_nif_mutex, holder, singleton, ctx, mtx, chipUp, initCount,
                   shutdownCount, nInitCalls, sched, maxInits, self_pid, driver, cb,
                   nCallbacks, nTokens, invoked, stored, nSent, sentMsg, lastReg,
                   regAtLookup, nif>>

ScanResultCall(t, c, st) == ResultCall(t, c, st, "scan_res")
ConnectResultCall(t, c, st) == ResultCall(t, c, st, "conn_res")

\* A resolve that reports success whatever its status argument.
ScanStatusSuccess(st) == "kSuccess"

\* (status == 0) ? kSuccess : kUnknownError / kNetworkNotFound
ScanStatus(st) == IF st = 0 THEN "kSuccess" ELSE "kUnknownError"
ConnectStatus(st) == IF st = 0 THEN "kSuccess" ELSE "kNetworkNotFound"

\* A driver that keeps the scan callback it has called.
ScanKept == driver

\* The driver after the pending scan callback was called.
ScanClear == [driver EXCEPT !.mpScanCallback = NULL]
\* A driver that forgets both callbacks when the connect callback was called.
BothClear == [driver EXCEPT !.mpScanCallback = NULL, !.mpConnectCallback = NULL]

ConnectClear == [driver EXCEPT !.mpConnectCallback = NULL]

\* The end of a result call: UnlockChipStack() and return OK.
ResultReturn(t) ==
    /\ cur' = [cur EXCEPT ![t] = NULL]
    /\ status' = [status EXCEPT ![t] = 0]
    /\ ret' = [ret EXCEPT ![t] = "ok"]
    /\ pc' = [pc EXCEPT ![t] = "ret"]

ScanResult(t) ==
    /\ pc[t] = "scan_res"
    /\ IF ctx[cur[t]].wifi_driver /\ driver.mpScanCallback # NULL
       THEN /\ invoked' = [invoked EXCEPT ![driver.mpScanCallback] =
                              Append(@, ScanStatus(status[t]))]
            /\ driver' = ScanClear
       ELSE UNCHANGED <<invoked, driver>>
    /\ ResultReturn(t)
    /\ UNCHANGED <<g_nif_mutex, holder, singleton, ctx, mtx, chipUp, initCount,
                   shutdownCount, nInitCalls, sched, maxInits, self_pid, cb, nCallbacks,
                   nTokens, stored, nSent, sentMsg, lastReg, regAtLookup, nif>>

ConnectResult(t) ==
    /\ pc[t] = "conn_res"
    /\ IF ctx[cur[t]].wifi_driver /\ driver.mpConnectCallback # NULL
       THEN /\ invoked' = [invoked EXCEPT ![driver.mpConnectCallback] =
                              Append(@, ConnectStatus(status[t]))]
            /\ driver' = ConnectClear
       ELSE UNCHANGED <<invoked, driver>>
    /\ ResultReturn(t)
    /\ UNCHANGED <<g_nif_mutex, holder, singleton, ctx, mtx, chipUp, initCount,
                   shutdownCount, nInitCalls, sched, maxInits, self_pid, cb, nCallbacks,
                   nTokens, stored, nSent, sentMsg, lastReg, regAtLookup, nif>>

\* ------------------------------------------------------------ NIF arguments
\* enif_get_resource succeeds on a handle the caller holds.
Handle(t, c) == pc[t] = "idle" /\ ctx[c].state = "live"

\* A term passed as an argument: an integer that fits an unsigned int, an
\* integer above UINT_MAX, an atom, or a term of another type.
Uint(n) == [term |-> "uint", atom |-> "", uint |-> n]
Bignum == [term |-> "bignum", atom |-> "", uint |-> 0]
Atom(a) == [term |-> "atom", atom |-> a, uint |-> 0]
Other == [term |-> "other", atom |-> "", uint |-> 0]

\* enif_get_uint: the term is an integer that fits an unsigned int.
GetUint(x) == x.term = "uint"

\* A range test that also turns the largest endpoint away.
InvalidEndpointInclusive(ep) == ep.uint >= EndpointMax

\* if (endpoint_id > 0xFFFF)
InvalidEndpoint(ep) == ep.uint > EndpointMax

\* if (setup_pin == 0 || setup_pin > 99999998)
InvalidPin(pin) == pin.uint = 0 \/ pin.uint > PinMax

\* A range test that also turns the largest discriminator away.
InvalidDiscriminatorInclusive(disc) == disc.uint >= DiscriminatorMax

\* if (discriminator > 4095)
InvalidDiscriminator(disc) == disc.uint > DiscriminatorMax

\* (uint8_t) and (uint16_t) casts
Uint8(n) == n % 256
Uint16(n) == n % 65536

EndpointInputs == {Uint(0), Uint(EndpointMax), Uint(EndpointMax + 1), Bignum}
PinInputs == {Uint(0), Uint(1), Uint(PinMax), Uint(PinMax + 1), Bignum}
DiscriminatorInputs ==
    {Uint(0), Uint(DiscriminatorMax), Uint(DiscriminatorMax + 1), Bignum}
VendorInputs == {Uint(1), Uint(65537), Bignum}
SerialSizes == {0, SerialLimit - 1, SerialLimit}

\* argv[4] of set_attribute: an atom, an unsigned integer or another term.
ValueInputs == {Atom("true"), Atom("false"), Uint(255), Uint(256), Other}

\* One call into a collaborator (the stack, a store, enif_send) and whether
\* it reported success.
Call(op, ok) == [op |-> op, ok |-> ok, to |-> NULL, type |-> "none", byte |-> 0]

\* The NIF on thread t returns r, having made the collaborator calls cs.
NifReturn(t, r, cs) ==
    /\ ret' = [ret EXCEPT ![t] = r]
    /\ calls' = [calls EXCEPT ![t] = cs]
    /\ pc' = [pc EXCEPT ![t] = "ret"]

\* --------------------------------------- nif_start_server / nif_stop_server
\* A test that turns every handle away.
NotInitializedAlways(c) == TRUE

\* if (!ctx->initialized)
NotInitialized(c) == ~ctx[c].initialized

\* Server::Init() and StartEventLoopTask() report errors nobody reads.
StartServer(t, c) ==
    /\ Handle(t, c)
    /\ IF NotInitialized(c)
       THEN NifReturn(t, "not_initialized", <<>>)
       ELSE \E ok1, ok2 \in BOOLEAN :
               NifReturn(t, "ok", <<Call("Server.Init", ok1),
                                    Call("StartEventLoopTask", ok2)>>)
    /\ UNCHANGED <<g_nif_mutex, holder, singleton, ctx, cur, mtx, chipUp,
                   initCount, shutdownCount, nInitCalls, sched, maxInits,
                   bridge, config>>

\* No test of ctx->initialized: Server::Shutdown() is called on any handle.
StopServer(t, c) ==
    /\ Handle(t, c)
    /\ NifReturn(t, "ok", <<Call("Server.Shutdown", TRUE)>>)
    /\ UNCHANGED <<g_nif_mutex, holder, singleton, ctx, cur, mtx, chipUp,
                   initCount, shutdownCount, nInitCalls, sched, maxInits,
                   bridge, config>>

\* --------------------------------------- nif_set_attribute / nif_get_attribute
\* emberAfWriteAttribute with the value converted from the term v: an atom
\* is a boolean (true iff it is the atom true), an integer is cut to 8 bits.
WriteCall(v, ok) ==
    IF v.term = "atom"
    THEN [Call("emberAfWriteAttribute", ok) EXCEPT
              !.type = "ZCL_BOOLEAN_ATTRIBUTE_TYPE",
              !.byte = IF v.atom = "true" THEN 1 ELSE 0]
    ELSE [Call("emberAfWriteAttribute", ok) EXCEPT
              !.type = "ZCL_INT8U_ATTRIBUTE_TYPE", !.byte = Uint8(v.uint)]

\* enif_send of the attribute_changed event the write w leads to, when the
\* stack reports the change on the writing thread.
SendCall(w, pid) == [w EXCEPT !.op = "enif_send", !.ok = TRUE, !.to = pid]

\* The write result is not read.  A write that changed the attribute makes
\* the stack call MatterPostAttributeChangeCallback on this thread, inside
\* LockChipStack .. UnlockChipStack: it looks the listener up and sends the
\* event, or gives up (no listener, no message environment).
SetAttribute(t, c, ep, v) ==
    /\ Handle(t, c)
    /\ IF ~GetUint(ep)
       THEN NifReturn(t, "invalid_args", <<>>)
       ELSE IF InvalidEndpoint(ep)
       THEN NifReturn(t, "invalid_endpoint_id", <<>>)
       ELSE /\ StackLockFree
            /\ IF v.term \notin {"atom", "uint"}
               THEN NifReturn(t, "ok", <<>>)
               ELSE \E ok \in BOOLEAN :
                       \/ NifReturn(t, "ok", <<WriteCall(v, ok)>>)
                       \/ /\ ok
                          /\ CanLookUp
                          /\ ListenerInfo.found
                          /\ NifReturn(t, "ok",
                                 <<WriteCall(v, ok),
                                   SendCall(WriteCall(v, ok), ListenerInfo.pid)>>)
    /\ UNCHANGED <<g_nif_mutex, holder, singleton, ctx, cur, mtx, chipUp,
                   initCount, shutdownCount, nInitCalls, sched, maxInits,
                   bridge, config>>

\* emberAfReadAttribute: a status other than success is read_failed.
GetAttribute(t, c, ep) ==
    /\ Handle(t, c)
    /\ IF ~GetUint(ep)
       THEN NifReturn(t, "invalid_args", <<>>)
       ELSE IF InvalidEndpoint(ep)
       THEN NifReturn(t, "invalid_endpoint_id", <<>>)
       ELSE /\ StackLockFree
            /\ \E ok \in BOOLEAN :
                  NifReturn(t, IF ok THEN "ok" ELSE "read_failed",
                            <<Call("emberAfReadAttribute", ok)>>)
    /\ UNCHANGED <<g_nif_mutex, holder, singleton, ctx, cur, mtx, chipUp,
                   initCount, shutdownCount, nInitCalls, sched, maxInits,
                   bridge, config>>

\* ------------------------------------------------ nif_set_commissioning_info
\* A store call that reports an error has stored nothing.
SetCommissioningInfo(t, c, pin, disc) ==
    /\ Handle(t, c)
    /\ IF ~GetUint(pin) \/ ~GetUint(disc)
       THEN NifReturn(t, "invalid_args", <<>>) /\ UNCHANGED config
       ELSE IF InvalidPin(pin)
       THEN NifReturn(t, "invalid_pin", <<>>) /\ UNCHANGED config
       ELSE IF InvalidDiscriminator(disc)
       THEN NifReturn(t, "invalid_discriminator", <<>>) /\ UNCHANGED config
       ELSE /\ StackLockFree
            /\ \/ /\ NifReturn(t, "store_pin_failed",
                               <<Call("StoreSetupPinCode", FALSE)>>)
                  /\ UNCHANGED config
               \/ /\ NifReturn(t, "store_discriminator_failed",
                               <<Call("StoreSetupPinCode", TRUE),
                                 Call("StoreSetupDiscriminator", FALSE)>>)
                  /\ config' = [config EXCEPT !.pin = <<pin.uint>>]
               \/ /\ NifReturn(t, "ok",
                               <<Call("StoreSetupPinCode", TRUE),
                                 Call("StoreSetupDiscriminator", TRUE)>>)
                  /\ config' = [config EXCEPT !.pin = <<pin.uint>>,
                                              !.discriminator = <<disc.uint>>]
    /\ UNCHANGED <<g_nif_mutex, holder, singleton, ctx, cur, mtx, chipUp,
                   initCount, shutdownCount, nInitCalls, sched, maxInits,
                   bridge>>

\* ------------------------------------------------------- nif_set_device_info
\* The stores the call makes: the serial number only when 0 < size < 32.
DeviceStores(size) ==
    <<"StoreManufacturerDeviceId", "StoreProductId", "StoreSoftwareVersion">>
    \o (IF size > 0 /\ size < SerialLimit THEN <<"StoreSerialNumber">> ELSE <<>>)

\* The store that reports an error, if one does.
StoreFailures(size) ==
    {"none"} \cup {DeviceStores(size)[i] : i \in 1..Len(DeviceStores(size))}

\* No store result is read; at most the store named failing reports an error.
SetDeviceInfo(t, c, vid, size, failing) ==
    /\ Handle(t, c)
    /\ IF ~GetUint(vid)
       THEN NifReturn(t, "invalid_args", <<>>) /\ UNCHANGED config
       ELSE /\ StackLockFree
            /\ NifReturn(t, "ok",
                         [i \in 1..Len(DeviceStores(size)) |->
                             Call(DeviceStores(size)[i],
                                  DeviceStores(size)[i] # failing)])
            /\ IF failing = "StoreManufacturerDeviceId"
               THEN UNCHANGED config
               ELSE config' = [config EXCEPT !.vendor = <<Uint16(vid.uint)>>]
    /\ UNCHANGED <<g_nif_mutex, holder, singleton, ctx, cur, mtx, chipUp,
                   initCount, shutdownCount, nInitCalls, sched, maxInits,
                   bridge>>

\* ------------------------------------------------------------------ return
\* The call of scheduler thread t has returned ret[t] to its caller.
Returned(t) ==
    /\ pc[t] = "ret"
    /\ pc' = [pc EXCEPT ![t] = "idle"]
    /\ ret' = [ret EXCEPT ![t] = "none"]
    /\ calls' = [calls EXCEPT ![t] = <<>>]
    /\ UNCHANGED <<g_nif_mutex, holder, singleton, ctx, cur, mtx, chipUp,
                   initCount, shutdownCount, nInitCalls, sched, maxInits, bridge, config>>

\* The callback has returned to the stack: its message environment is gone.
CallbackReturned ==
    /\ pc[MatterThread] = "ret"
    /\ pc' = [pc EXCEPT ![MatterThread] = "idle"]
    /\ ret' = [ret EXCEPT ![MatterThread] = "none"]
    /\ sentMsg' = NoMessage
    /\ regAtLookup' = NULL
    /\ UNCHANGED <<g_nif_mutex, holder, singleton, ctx, cur, mtx, chipUp,
                   initCount, shutdownCount, nInitCalls, sched, maxInits, self_pid,
                   status, driver, cb, nCallbacks, nTokens, invoked, stored, nSent,
                   lastReg, nif>>

\* the scheduler threads of this run
Sched == 1..sched

\* -------------------------------------------------------------------- Next
Next ==
    \/ \E t \in Sched : InitCall(t)
    \/ \E t \in Sched : InitGmNew(t)
    \/ \E t \in Sched : InitGmRet(t)
    \/ \E t \in Sched : InitLock(t)
    \/ \E t \in Sched : InitAlloc(t)
    \/ \E t \in Sched : InitChip(t)
    \/ \E t \in Sched : InitRet(t)
    \/ \E t \in Sched : InitFailRet(t)
    \/ \E t \in Sched, c \in Ctx : DtorCall(t, c)
    \/ \E t \in Sched : DtorLock(t)
    \/ \E t \in Sched : DtorDec(t)
    \/ \E t \in Sched : DtorCheck(t)
    \/ \E t \in Sched : DtorUnlock(t)
    \/ \E t \in Sched : FdtorRelock(t)
    \/ \E t \in Sched : FdtorDec(t)
    \/ \E t \in Sched : FdtorCheck(t)
    \/ \E t \in Sched : FdtorUnlock(t)
    \/ \E t \in Sched, c \in Ctx, p \in Pids : RegisterCall(t, c, p)
    \/ \E t \in Sched : RegisterPid(t)
    \/ \E t \in Sched : RegisterFlag(t)
    \/ ScanNetworks
    \/ ScanAct
    \/ \E ssid \in SsidInputs : ConnectNetwork(ssid)
    \/ ConnectAct
    \/ \E t \in Sched, c \in Ctx, st \in 0..MaxStatus : ScanResultCall(t, c, st)
    \/ \E t \in Sched : ScanResult(t)
    \/ \E t \in Sched, c \in Ctx, st \in 0..MaxStatus : ConnectResultCall(t, c, st)
    \/ \E t \in Sched : ConnectResult(t)
    \/ \E t \in Sched : Returned(t)
    \/ CallbackReturned

\* One scheduler thread beside the Matter thread: contexts, registration,
\* scan and connect requests and their results.
Init == InitVars /\ sched = 1 /\ maxInits = MaxBridgeInits

Spec == Init /\ [][Next]_vars

\* One scheduler thread beside the Matter thread: contexts, registration and
\* the four callbacks that send events.
NextEvents ==
    \/ \E t \in Sched : InitCall(t)
    \/ \E t \in Sched : InitGmNew(t)
    \/ \E t \in Sched : InitGmRet(t)
    \/ \E t \in Sched : InitLock(t)
    \/ \E t \in Sched : InitAlloc(t)
    \/ \E t \in Sched : InitChip(t)
    \/ \E t \in Sched : InitRet(t)
    \/ \E t \in Sched : InitFailRet(t)
    \/ \E t \in Sched, c \in Ctx : DtorCall(t, c)
    \/ \E t \in Sched : DtorLock(t)
    \/ \E t \in Sched : DtorDec(t)
    \/ \E t \in Sched : DtorCheck(t)
    \/ \E t \in Sched : DtorUnlock(t)
    \/ \E t \in Sched : FdtorRelock(t)
    \/ \E t \in Sched : FdtorDec(t)
    \/ \E t \in Sched : FdtorCheck(t)
    \/ \E t \in Sched : FdtorUnlock(t)
    \/ \E t \in Sched, c \in Ctx, p \in Pids : RegisterCall(t, c, p)
    \/ \E t \in Sched : RegisterPid(t)
    \/ \E t \in Sched : RegisterFlag(t)
    \/ ScanNetworks
    \/ ScanAct
    \/ \E ssid \in SsidInputs : ConnectNetwork(ssid)
    \/ ConnectAct
    \/ \E ssid \in SsidInputs, cred \in CredInputs : AddOrUpdateNetwork(ssid, cred)
    \/ AddAct
    \/ \E a \in AttrInputs : AttributeChange(a)
    \/ AttributeAct
    \/ \E t \in Sched : Returned(t)
    \/ CallbackReturned

SpecEvents == Init /\ [][NextEvents]_vars

\* NumCallers scheduler threads creating and releasing contexts.
NextLife ==
    \/ \E t \in Sched : InitCall(t)
    \/ \E t \in Sched : InitGmNew(t)
    \/ \E t \in Sched : InitGmRet(t)
    \/ \E t \in Sched : InitLock(t)
    \/ \E t \in Sched : InitAlloc(t)
    \/ \E t \in Sched : InitChip(t)
    \/ \E t \in Sched : InitRet(t)
    \/ \E t \in Sched : InitFailRet(t)
    \/ \E t \in Sched, c \in Ctx : DtorCall(t, c)
    \/ \E t \in Sched : DtorLock(t)
    \/ \E t \in Sched : DtorDec(t)
    \/ \E t \in Sched : DtorCheck(t)
    \/ \E t \in Sched : DtorUnlock(t)
    \/ \E t \in Sched : FdtorRelock(t)
    \/ \E t \in Sched : FdtorDec(t)
    \/ \E t \in Sched : FdtorCheck(t)
    \/ \E t \in Sched : FdtorUnlock(t)
    \/ \E t \in Sched : Returned(t)

\* Two scheduler threads, the fewest that make nif_init calls and destructor
\* runs concurrent.
InitLife == InitVars /\ sched = 2 /\ maxInits = MaxInitCalls

SpecLife == InitLife /\ [][NextLife]_vars

\* One scheduler thread and one nif_init call: the server and attribute
\* NIFs on the handle, the listener registration, and the attribute-change
\* callback on the Matter thread.
NextNif ==
    \/ \E t \in Sched : InitCall(t)
    \/ \E t \in Sched : InitGmNew(t)
    \/ \E t \in Sched : InitGmRet(t)
    \/ \E t \in Sched : InitLock(t)
    \/ \E t \in Sched : InitAlloc(t)
    \/ \E t \in Sched : InitChip(t)
    \/ \E t \in Sched : InitRet(t)
    \/ \E t \in Sched : InitFailRet(t)
    \/ \E t \in Sched, c \in Ctx : DtorCall(t, c)
    \/ \E t \in Sched : DtorLock(t)
    \/ \E t \in Sched : DtorDec(t)
    \/ \E t \in Sched : DtorCheck(t)
    \/ \E t \in Sched : DtorUnlock(t)
    \/ \E t \in Sched : FdtorRelock(t)
    \/ \E t \in Sched : FdtorDec(t)
    \/ \E t \in Sched : FdtorCheck(t)
    \/ \E t \in Sched : FdtorUnlock(t)
    \/ \E t \in Sched, c \in Ctx, p \in Pids : RegisterCall(t, c, p)
    \/ \E t \in Sched : RegisterPid(t)
    \/ \E t \in Sched : RegisterFlag(t)
    \/ \E t \in Sched, c \in Ctx : StartServer(t, c)
    \/ \E t \in Sched, c \in Ctx : StopServer(t, c)
    \/ \E t \in Sched, c \in Ctx, ep \in EndpointInputs, v \in ValueInputs :
          SetAttribute(t, c, ep, v)
    \/ \E t \in Sched, c \in Ctx, ep \in EndpointInputs : GetAttribute(t, c, ep)
    \/ \E a \in AttrInputs : AttributeChange(a)
    \/ AttributeAct
    \/ \E t \in Sched : Returned(t)
    \/ CallbackReturned

InitNif == InitVars /\ sched = 1 /\ maxInits = 1

SpecNif == InitNif /\ [][NextNif]_vars

\* One scheduler thread and one nif_init call: the lifecycle and the NIFs
\* that write the configuration store.
NextConfig ==
    \/ NextLife
    \/ \E t \in Sched, c \in Ctx, pin \in PinInputs, disc \in DiscriminatorInputs :
          SetCommissioningInfo(t, c, pin, disc)
    \/ \E t \in Sched, c \in Ctx, vid \in VendorInputs, size \in SerialSizes :
          \E failing \in StoreFailures(size) :
             SetDeviceInfo(t, c, vid, size, failing)

InitConfig == InitVars /\ sched = 1 /\ maxInits = 1

SpecConfig == InitConfig /\ [][NextConfig]_vars

\* A step of the call thread t is running, other than the second lock() of a
\* mutex the thread already owns.
LifeStep(t) ==
    /\ t \in Sched
    /\ \/ InitGmNew(t) \/ InitGmRet(t) \/ InitLock(t) \/ InitAlloc(t)
       \/ InitChip(t) \/ InitRet(t) \/ InitFailRet(t)
       \/ DtorLock(t) \/ DtorDec(t) \/ DtorCheck(t) \/ DtorUnlock(t)
       \/ FdtorDec(t) \/ FdtorCheck(t) \/ FdtorUnlock(t)
       \/ Returned(t)

\* The lifecycle with threads that keep running: a call that can take its
\* next step takes it.  No such promise for lock() on a std::mutex its
\* thread owns, which may return or never return.
SpecLifeFair == SpecLife /\ \A t \in Callers : WF_vars(LifeStep(t))

\* One scheduler thread and one nif_init call: the listener registration and
\* the driver's stored network, written by AddOrUpdateNetwork and read by
\* ConnectNetwork, which the stack may call for any network id.
NextNetwork ==
    \/ \E t \in Sched : InitCall(t)
    \/ \E t \in Sched : InitGmNew(t)
    \/ \E t \in Sched : InitGmRet(t)
    \/ \E t \in Sched : InitLock(t)
    \/ \E t \in Sched : InitAlloc(t)
    \/ \E t \in Sched : InitChip(t)
    \/ \E t \in Sched : InitRet(t)
    \/ \E t \in Sched : InitFailRet(t)
    \/ \E t \in Sched, c \in Ctx : DtorCall(t, c)
    \/ \E t \in Sched : DtorLock(t)
    \/ \E t \in Sched : DtorDec(t)
    \/ \E t \in Sched : DtorCheck(t)
    \/ \E t \in Sched : DtorUnlock(t)
    \/ \E t \in Sched : FdtorRelock(t)
    \/ \E t \in Sched : FdtorDec(t)
    \/ \E t \in Sched : FdtorCheck(t)
    \/ \E t \in Sched : FdtorUnlock(t)
    \/ \E t \in Sched, c \in Ctx, p \in Pids : RegisterCall(t, c, p)
    \/ \E t \in Sched : RegisterPid(t)
    \/ \E t \in Sched : RegisterFlag(t)
    \/ \E ssid \in ConnectInputs : ConnectNetwork(ssid)
    \/ ConnectAct
    \/ \E ssid \in ShortSsidInputs, cred \in ShortCredInputs :
          AddOrUpdateNetwork(ssid, cred)
    \/ AddAct
    \/ \E t \in Sched : Returned(t)
    \/ CallbackReturned

SpecNetwork == InitNif /\ [][NextNetwork]_vars

\* One scheduler thread and one nif_init call: every operation on the
\* driver, the requests of the stack with their results and the stored
\* network.
NextDriver ==
    \/ Next
    \/ \E ssid \in SsidInputs, cred \in CredInputs : AddOrUpdateNetwork(ssid, cred)
    \/ AddAct

SpecDriver == InitNif /\ [][NextDriver]_vars

\* ====================================================================
\* Properties
\* ====================================================================
\* No NIF and no callback is running.
Quiescent == \A t \in Threads : pc[t] \in {"idle", "ret"}

\* Every handle has been released and its memory freed.
AllReleased == \A c \in Ctx : ctx[c].state = "free"

\* Thread t runs nif_register_callback.
Registering(t) == pc[t] \in {"reg_pid", "reg_flag"}

\* C1: for every sequence of acquire and release calls after which all
\* handles are released, the stack's shutdown has been invoked exactly once
\* per successful initialisation (and never more often than the stack was
\* initialised).
C1_ShutdownOncePerInit ==
    /\ shutdownCount <= initCount
    /\ (Quiescent /\ AllReleased) => shutdownCount = initCount

\* C2: in every reachable state, whatever acquire calls succeeded or failed
\* and whatever handles were released, the singleton's ref_count is >= 0.
C2_RefCountNonNegative == singleton.ref_count >= 0

\* C3: between operations, ref_count > 0 holds if and only if the stack is
\* marked initialised; the stack is never left marked initialised once
\* every handle has been released.
C3_RefCountIffInitialized ==
    Quiescent => (singleton.ref_count > 0 <=> singleton.sdk_initialized)

\* The handles two acquire calls returned, both still held.
LiveHandles == {c \in Ctx : ctx[c].state = "live"}

\* C4: after two concurrent acquire calls that started on an uninitialised
\* stack and both succeeded, the stack was initialised exactly once, exactly
\* one of the two handles is the owner, the other is a non-owner marked
\* initialised, and ref_count is 2.
C4_ConcurrentAcquire ==
    (/\ Quiescent
     /\ nInitCalls = 2
     /\ shutdownCount = 0
     /\ Cardinality(LiveHandles) = 2)
    => /\ initCount = 1
       /\ singleton.ref_count = 2
       /\ Cardinality({c \in LiveHandles : ctx[c].is_owner}) = 1
       /\ \A c \in LiveHandles : ctx[c].initialized

\* Thread t runs the destructor of a handle that is not the owner.
ReleasingNonOwner(t) ==
    /\ pc[t] \in {"dtor_lock", "dtor_dec", "dtor_check", "dtor_unlock"}
    /\ ~ctx[cur[t]].is_owner

\* C5: no step of the release of a non-owning handle invokes the stack's
\* shutdown or clears sdk_initialized or owner_context, also when the handle
\* is the last one and ref_count drops to zero.
C5_NonOwnerNeverShutsDown ==
    [][\A t \in Callers :
          (ReleasingNonOwner(t) /\ pc'[t] # pc[t])
          => /\ shutdownCount' = shutdownCount
             /\ chipUp' = chipUp
             /\ singleton'.sdk_initialized = singleton.sdk_initialized
             /\ singleton'.owner_context = singleton.owner_context]_vars

\* The last handle, a non-owner, has passed the destructor's test: ref_count
\* is zero and the stack is still up and marked initialised.
C5_Witness ==
    \E t \in Callers :
        /\ pc[t] = "dtor_unlock"
        /\ ~ctx[cur[t]].is_owner
        /\ singleton.ref_count = 0
        /\ singleton.sdk_initialized
        /\ chipUp
        /\ \A c \in Ctx \ {cur[t]} : ctx[c].state = "free"

\* Thread t is in a nif_init whose InitChipStack failed.
InitFailing(t) ==
    pc[t] \in {"fdtor_lock", "fdtor_dec", "fdtor_check", "fdtor_unlock",
               "init_failret"}

\* C6: when the stack rejects startup, no step of the failing acquire (the
\* discarded handle's destructor included) changes owner_context, ref_count
\* or sdk_initialized, and the call returns the stack-init failure.
C6_FailedInitNoMutation ==
    [][\A t \in Callers :
          /\ (pc[t] = "init_chip" /\ pc'[t] = "fdtor_lock")
             => singleton' = singleton
          /\ (InitFailing(t) /\ pc'[t] # pc[t])
             => /\ singleton' = singleton
                /\ pc[t] = "init_failret" => ret'[t] = "chip_init_failed"]_vars

\* Thread t is about to write the singleton, a listener registration or a
\* pending-token slot.
Writes(t) ==
    \/ pc[t] \in {"init_alloc", "init_chip", "dtor_dec", "dtor_check",
                  "fdtor_dec", "fdtor_check"}
    \/ Registering(t)
    \/ pc[t] \in {"scan_act", "conn_act"} /\ cb.found
    \/ pc[t] \in {"scan_res", "conn_res"}

\* C7: every write to the singleton, to the listener registration and to
\* the pending scan/connect token slots is made by a thread that holds the
\* one process-wide mutex.
C7_WritesUnderMutex ==
    \A t \in Threads :
        Writes(t) => (g_nif_mutex # NULL /\ holder[g_nif_mutex] = t)

\* C8: an event emitted after the most recent register_listener call
\* returned (no registration running when the listener was looked up, none
\* completed since, the owning handle still held) is sent to the identity
\* that call registered, whichever handle it was made through.
C8_EventsToLatestRegistration ==
    (/\ pc[MatterThread] = "ret"
     /\ sentMsg.kind # "none"
     /\ regAtLookup # NULL
     /\ lastReg = regAtLookup
     /\ singleton.owner_context # NULL
     /\ ctx[singleton.owner_context].state = "live")
    => sentMsg.to = lastReg

\* A register_listener call had returned, and none was running, when the
\* running request looked the listener up; no handle's release has shut the
\* stack down and the owning handle is still held.
ListenerRegisteredAtLookup ==
    /\ regAtLookup # NULL
    /\ shutdownCount = 0
    /\ singleton.owner_context # NULL
    /\ ctx[singleton.owner_context].state = "live"

\* Completion callback k is invoked in this step: for the first time, as
\* the pending token of its slot, which the step clears, and no callback
\* supplied later was stored in that slot.
InvokedAsPending(k) ==
    /\ invoked[k] = <<>>
    /\ Len(invoked'[k]) = 1
    /\ \A k2 \in Tokens : k2 > k => stored[k2] # stored[k]
    /\ \/ /\ stored[k] = "scan"
          /\ driver.mpScanCallback = k
          /\ driver'.mpScanCallback = NULL
          /\ \E t \in Callers : pc[t] = "scan_res" /\ pc'[t] # "scan_res"
       \/ /\ stored[k] = "connect"
          /\ driver.mpConnectCallback = k
          /\ driver'.mpConnectCallback = NULL
          /\ \E t \in Callers : pc[t] = "conn_res" /\ pc'[t] # "conn_res"

\* C9: with a listener registered, request_scan makes its token the pending
\* one, replacing any token still pending; a completion callback is invoked
\* only as the pending (most recently supplied) token of its kind, once, and
\* the first resolve_scan that finds a token pending invokes it (the same
\* for request_connect and resolve_connect).
C9_LatestTokenInvokedOnce ==
    [][/\ (/\ pc[MatterThread] = "scan_act"
           /\ pc'[MatterThread] # "scan_act"
           /\ ListenerRegisteredAtLookup)
          => driver'.mpScanCallback = cb.tok
       /\ (/\ pc[MatterThread] = "conn_act"
           /\ pc'[MatterThread] # "conn_act"
           /\ ListenerRegisteredAtLookup)
          => driver'.mpConnectCallback = cb.tok
       /\ \A k \in Tokens : invoked'[k] # invoked[k] => InvokedAsPending(k)
       /\ \A t \in Callers :
             /\ (/\ pc[t] = "scan_res" /\ pc'[t] # "scan_res"
                 /\ driver.mpScanCallback # NULL)
                => invoked'[driver.mpScanCallback]
                       # invoked[driver.mpScanCallback]
             /\ (/\ pc[t] = "conn_res" /\ pc'[t] # "conn_res"
                 /\ driver.mpConnectCallback # NULL)
                => invoked'[driver.mpConnectCallback]
                       # invoked[driver.mpConnectCallback]]_vars

\* The stack starts a scan or connect request in this step.
RequestStarts ==
    /\ pc[MatterThread] = "idle"
    /\ pc'[MatterThread] \in {"scan_act", "conn_act"}

\* No register_listener call has returned and none is running.
NeverRegistered ==
    /\ lastReg = NULL
    /\ \A t \in Callers : ~Registering(t)

\* C10: a scan or connect request made when no listener is registered finds
\* no listener, fails with the no-listener error, emits no message and leaves
\* the pending token slots and the rest of the state as they were.
C10_NoListenerNoChange ==
    [][/\ (RequestStarts /\ NeverRegistered)
          => /\ ~cb'.found
             /\ UNCHANGED <<driver, nSent, sentMsg, singleton, ctx, invoked,
                            stored, chipUp>>
       /\ (/\ pc[MatterThread] \in {"scan_act", "conn_act"}
           /\ pc'[MatterThread] # pc[MatterThread]
           /\ ~cb.found)
          => /\ ret'[MatterThread] = "CHIP_ERROR_INCORRECT_STATE"
             /\ UNCHANGED <<driver, nSent, sentMsg, singleton, ctx, invoked,
                            stored, chipUp>>]_vars

\* Thread t owns a mutex.
HoldsMutex(t) == \E m \in DOMAIN holder : holder[m] = t

\* C11: no operation blocks forever while it holds the mutex: a thread that
\* holds the mutex (acquire, its failed-init path, release, lookup) gives it
\* up again.
C11_MutexReleased == \A t \in Callers : HoldsMutex(t) ~> ~HoldsMutex(t)

\* The call thread t runs has sent an event to the listener.
CallerEmitted(t) == \E i \in 1..Len(calls[t]) : calls[t][i].op = "enif_send"

Released(t) == pc[t] = "dtor_unlock"

\* An owning handle that has not been released.
OwnerHeld == \E c \in Ctx : ctx[c].state = "live" /\ ctx[c].is_owner

\* C13: when the non-owning handles are released before the owning one,
\* each non-owner's release leaves the stack up and initialised with
\* ref_count counting the handles still held, and the owner's release, the
\* last one, brings ref_count to 0 and shuts the stack down, once per
\* initialisation.
C13_OwnerReleasedLast ==
    \A t \in Callers :
        Released(t) =>
            /\ (~ctx[cur[t]].is_owner /\ OwnerHeld)
               => /\ chipUp
                  /\ singleton.sdk_initialized
                  /\ singleton.ref_count = Cardinality(LiveHandles)
            /\ (ctx[cur[t]].is_owner /\ \A c \in Ctx \ {cur[t]} : ctx[c].state = "free")
               => /\ singleton.ref_count = 0
                  /\ ~chipUp
                  /\ shutdownCount = initCount

\* The call thread t runs has called the stack operation op.
Called(t, op) == \E i \in 1..Len(calls[t]) : calls[t][i].op = op

HeldHandlesInitialized == \A c \in Ctx : ctx[c].state = "live" => ctx[c].initialized

\* A result that tells the caller, or the stack, that the operation failed.
Failure(r) == r \notin {"none", "ok", "released", "void", "CHIP_NO_ERROR"}

\* C15: an operation that returns a failure leaves the state it could have
\* changed as it was: a set_commissioning_info or set_device_info call that
\* fails, at whatever point, leaves the configuration store unchanged (the
\* setup PIN too when the discriminator could not be stored).
C15_FailureLeavesState ==
    [][\A t \in Callers :
          (ret'[t] # ret[t] /\ Failure(ret'[t])) => config' = config]_vars

\* The same for the stack-facing requests: a ScanNetworks or ConnectNetwork
\* that returns an error leaves the pending token slots unchanged.
FailedRequestLeavesToken ==
    [][(ret'[MatterThread] # ret[MatterThread] /\ Failure(ret'[MatterThread]))
       => driver' = driver]_vars

\* The call thread t runs was told by a collaborator that a call failed.
CollaboratorFailed(t) == \E i \in 1..Len(calls[t]) : ~calls[t][i].ok

\* C16: when a collaborator call made for a caller-facing operation reports
\* failure (the attribute store in set_attribute, the stack in start()), the
\* operation returns a tagged failure.
C16_CollaboratorFailureSurfaces ==
    [][\A t \in Callers :
          (calls'[t] # calls[t] /\ CollaboratorFailed(t)') => Failure(ret'[t])]_vars

\* The integer term x is greater than n.
Above(x, n) == x.term = "bignum" \/ (x.term = "uint" /\ x.uint > n)

\* The call of thread t made no call to a collaborator: the attribute store
\* and the configuration store were not touched.
Untouched(t) == calls'[t] = <<>> /\ config' = config

\* The call of thread t got past the validation of its arguments.
PassedValidation(t) ==
    ret'[t] \notin {"invalid_args", "invalid_endpoint_id", "invalid_pin",
                    "invalid_discriminator"}

\* set_attribute or get_attribute is called on endpoint ep.
AttributeCall(t, c, ep) ==
    \/ \E v \in ValueInputs : SetAttribute(t, c, ep, v)
    \/ GetAttribute(t, c, ep)

ValidPin(pin) == GetUint(pin) /\ ~InvalidPin(pin)

Outcome(st, failed) == IF st = 0 THEN "kSuccess" ELSE failed

\* C19: resolve_scan(status) with a scan token pending invokes that token,
\* for the first and only time, with success if status = 0 and with a
\* failure otherwise, and leaves no scan token stored; resolve_connect does
\* the same with the connect token.
C19_ResolveInvokesPending ==
    [][\A t \in Callers :
          /\ (pc[t] = "scan_res" /\ pc'[t] # pc[t] /\ driver.mpScanCallback # NULL)
             => /\ invoked' = [invoked EXCEPT ![driver.mpScanCallback] =
                                  <<Outcome(status[t], "kUnknownError")>>]
                /\ driver'.mpScanCallback = NULL
          /\ (pc[t] = "conn_res" /\ pc'[t] # pc[t] /\ driver.mpConnectCallback # NULL)
             => /\ invoked' = [invoked EXCEPT ![driver.mpConnectCallback] =
                                  <<Outcome(status[t], "kNetworkNotFound")>>]
                /\ driver'.mpConnectCallback = NULL]_vars

\* A resolve_scan with a status other than 0 has returned: the token it
\* found was invoked once, with the failure, and the slot is empty.
C19_Witness ==
    \E t \in Callers, k \in DOMAIN invoked :
        /\ pc[t] = "ret"
        /\ stored[k] = "scan"
        /\ invoked[k] = <<"kUnknownError">>
        /\ driver.mpScanCallback = NULL

\* C20: resolve_scan or resolve_connect with no token of its kind pending
\* returns success, invokes nothing and changes no state; so no token is
\* ever invoked twice, however many resolves follow one request.
C20_ResolveWithoutPending ==
    [][/\ \A t \in Callers :
             \/ pc[t] = "scan_res" /\ pc'[t] # pc[t] /\ driver.mpScanCallback = NULL
             \/ pc[t] = "conn_res" /\ pc'[t] # pc[t] /\ driver.mpConnectCallback = NULL
             => /\ ret'[t] = "ok"
                /\ UNCHANGED <<invoked, driver, stored, self_pid, cb, nSent, sentMsg,
                               singleton, ctx, chipUp, config>>
       /\ \A k \in DOMAIN invoked : Len(invoked'[k]) <= 1]_vars

\* The second of two resolve_scan calls after one request is at its test:
\* the token was invoked once and the slot is empty.
C20_Witness ==
    \E t \in Callers, k \in DOMAIN invoked :
        /\ pc[t] = "scan_res"
        /\ driver.mpScanCallback = NULL
        /\ stored[k] = "scan"
        /\ Len(invoked[k]) = 1

\* ConnectNetwork, having found a listener, finishes in this step.
ConnectFinishes ==
    /\ pc[MatterThread] = "conn_act"
    /\ pc'[MatterThread] # "conn_act"
    /\ cb.found

\* C21: with a listener registered and a network stored, a request_connect
\* that does not run out of memory succeeds, stores the connect token and
\* emits exactly one connect_network event, whose SSID and secret are the
\* ones in the stored-network slot.
C21_ConnectSendsStoredNetwork ==
    [][(ConnectFinishes /\ driver.mNetwork.configured)
       => \/ ret'[MatterThread] = "CHIP_ERROR_NO_MEMORY"
          \/ /\ ret'[MatterThread] = "CHIP_NO_ERROR"
             /\ driver'.mpConnectCallback = cb.tok
             /\ nSent' = nSent + 1
             /\ sentMsg'.kind = "connect_network"
             /\ sentMsg'.ssid = driver.mNetwork.ssid
             /\ sentMsg'.cred = driver.mNetwork.credentials]_vars

\* The number of bytes of a source of n bytes that fit a buffer of cap bytes.
Fitting(n, cap) == IF n <= cap THEN n ELSE cap

\* C22: store_network(ssid, credentials) always succeeds and overwrites the
\* one stored-network slot with the first min(len(ssid), 32) bytes of ssid
\* and the first min(len(credentials), 64) bytes of credentials; the stored
\* lengths never exceed 32 and 64.
C22_StoreNetworkBounded ==
    [][/\ (pc[MatterThread] = "idle" /\ pc'[MatterThread] = "add_act")
          => /\ driver'.mNetwork.ssid
                = Prefix(cb'.ssid, Fitting(cb'.ssid.len, SsidCapacity))
             /\ driver'.mNetwork.credentials
                = Prefix(cb'.cred, Fitting(cb'.cred.len, CredCapacity))
             /\ driver'.mNetwork.configured
       /\ (pc[MatterThread] = "add_act" /\ pc'[MatterThread] # "add_act")
          => ret'[MatterThread] = "CHIP_NO_ERROR" /\ driver' = driver
       /\ driver'.mNetwork.ssid.len <= SsidCapacity
       /\ driver'.mNetwork.credentials.len <= CredCapacity]_vars

\* store_network was given an SSID and credentials longer than the slot's
\* buffers and has stored the 32 and 64 bytes that fit.
C22_Witness ==
    /\ pc[MatterThread] = "add_act"
    /\ cb.ssid.len > SsidCapacity
    /\ cb.cred.len > CredCapacity
    /\ driver.mNetwork.ssid = Bytes(cb.ssid.id, SsidCapacity)
    /\ driver.mNetwork.credentials = Bytes(cb.cred.id, CredCapacity)

\* store_network or notify looks the listener up in this step.
BestEffortStarts ==
    /\ pc[MatterThread] = "idle"
    /\ pc'[MatterThread] \in {"add_act", "attr_act"}

\* store_network or notify, past its lookup, finishes in this step.
BestEffortFinishes ==
    /\ pc[MatterThread] \in {"add_act", "attr_act"}
    /\ pc'[MatterThread] # pc[MatterThread]

\* C23: store_network and notify never fail for lack of a listener.  With
\* no listener registered they find none, emit nothing and return success,
\* store_network having updated the slot; with a listener registered they
\* find it and, unless the message cannot be allocated, emit exactly one
\* event, to that listener.
C23_BestEffortPaths ==
    [][/\ (BestEffortStarts /\ NeverRegistered) => ~cb'.found
       /\ (BestEffortStarts /\ ListenerRegisteredAtLookup' /\ regAtLookup' = lastReg)
          => cb'.found /\ cb'.pid = lastReg
       /\ (BestEffortStarts /\ pc'[MatterThread] = "add_act")
          => driver'.mNetwork.configured
       /\ BestEffortFinishes
          => /\ ret'[MatterThread] \in {"CHIP_NO_ERROR", "void"}
             /\ IF cb.found
                THEN \/ nSent' = nSent
                     \/ /\ nSent' = nSent + 1
                        /\ sentMsg'.kind \in {"add_network", "attribute_changed"}
                        /\ sentMsg'.to = cb.pid
                ELSE nSent' = nSent]_vars

\* C24: whenever the singleton's owner_context is not null it points at a
\* handle that has not been released: the context's memory has not been
\* freed, so no listener lookup reads a released handle.
C24_OwnerContextNotReleased ==
    singleton.owner_context # NULL => ctx[singleton.owner_context].state # "free"

\* C25: whatever the interleaving of the first calls of get_global_mutex,
\* one mutex object is created and every caller receives it: no two threads
\* work with different mutex objects, and no two threads hold a lock at the
\* same time.
C25_OneMutexObject ==
    \A t, u \in Callers :
        /\ (mtx[t] # NULL /\ mtx[u] # NULL) => mtx[t] = mtx[u]
        /\ (HoldsMutex(t) /\ HoldsMutex(u)) => t = u

\* C26: every handle a caller holds with initialized = true has a stack
\* that is up and marked initialised: the stack is not shut down while
\* another unreleased handle still reports an initialised view.
C26_InitializedViewIsLive ==
    \A c \in Ctx :
        (ctx[c].state = "live" /\ ctx[c].initialized)
        => (singleton.sdk_initialized /\ chipUp)

\* The handles held by callers that own the stack's lifecycle.
LiveOwners == {c \in LiveHandles : ctx[c].is_owner}

\* C27: at most one handle held by a caller has is_owner = true, and it is
\* the one owner_context points at; an acquire makes its handle the owner
\* only when it found the stack not initialised, and sets ref_count to 1.
C27_SingleOwner ==
    [][/\ Cardinality(LiveOwners') <= 1
       /\ \A c \in LiveOwners' : singleton'.owner_context = c
       /\ \A t \in Callers :
             (pc[t] = "init_chip" /\ pc'[t] = "init_ret")
             => /\ ~singleton.sdk_initialized
                /\ singleton'.ref_count = 1
                /\ singleton'.owner_context = cur[t]]_vars

\* request_scan past its lookup, or resolve_scan, finishes in this step.
ScanStep ==
    \/ pc[MatterThread] = "scan_act" /\ pc'[MatterThread] # "scan_act"
    \/ \E t \in Callers : pc[t] = "scan_res" /\ pc'[t] # "scan_res"

\* request_connect past its lookup, or resolve_connect, finishes in this step.
ConnectStep ==
    \/ pc[MatterThread] = "conn_act" /\ pc'[MatterThread] # "conn_act"
    \/ \E t \in Callers : pc[t] = "conn_res" /\ pc'[t] # "conn_res"

\* The tokens invoked in this step.
InvokedNow == {k \in Tokens : invoked'[k] # invoked[k]}

\* C28: the scan and connect token slots are independent: request_scan and
\* resolve_scan leave the connect slot alone and invoke only scan tokens,
\* request_connect and resolve_connect leave the scan slot alone and invoke
\* only connect tokens, and every other operation (store_network,
\* register_listener, notify, acquire, release) leaves both slots unchanged
\* and invokes nothing.
C28_SlotsIndependent ==
    [][/\ ScanStep
          => /\ driver'.mpConnectCallback = driver.mpConnectCallback
             /\ \A k \in InvokedNow : stored[k] = "scan"
       /\ ConnectStep
          => /\ driver'.mpScanCallback = driver.mpScanCallback
             /\ \A k \in InvokedNow : stored[k] = "connect"
       /\ ~(ScanStep \/ ConnectStep)
          => /\ driver'.mpScanCallback = driver.mpScanCallback
             /\ driver'.mpConnectCallback = driver.mpConnectCallback
             /\ InvokedNow = {}]_vars

\* A scan token was resolved while a connect token stays pending, untouched.
C28_Witness ==
    \E k, k2 \in Tokens :
        /\ stored[k] = "scan"
        /\ invoked[k] # <<>>
        /\ driver.mpScanCallback = NULL
        /\ stored[k2] = "connect"
        /\ driver.mpConnectCallback = k2
        /\ invoked[k2] = <<>>

====
